---- MODULE Spec2Model ----
(***************************************************************************)
(* Order workflow of the Mini E-Commerce API: checkout (createOrder),      *)
(* order lifecycle (updateOrderStatus), cancellation (cancelOrder), the    *)
(* cart and the admin product edits that touch the same rows.              *)
(*                                                                         *)
(* The store is PostgreSQL behind Prisma.  No isolation level is passed to *)
(* $transaction, so transactions run READ COMMITTED: a read sees the last  *)
(* committed row, an UPDATE takes the row lock until commit and applies    *)
(* its increment/decrement to the latest committed value, a rollback       *)
(* discards every write of the transaction.  Every database statement a    *)
(* handler awaits is one step, so requests interleave between statements.  *)
(* Prices are counted in cents.                                            *)
(***************************************************************************)
EXTENDS Integers, FiniteSets, Sequences, TLC

\* ---- bounds of the model -------------------------------------------------
MaxStock == 2
MaxPrice == 2
MaxRequests == 3
MaxSeqRequests == 18

\* ---- program constants ---------------------------------------------------
maxCancellationCount == 5

Products == {"p1", "p2"}
Users == {"u1", "u2"}
Proc == {"r1", "r2"}
OrderStatus == {"PENDING", "SHIPPED", "DELIVERED", "CANCELLED"}

VARIABLES
  stock,              \* Product.stock
  price,              \* Product.price
  isActive,           \* Product.isActive
  cart,               \* CartItem.quantity per user and product, 0 = no row
  orders,             \* Order rows with their OrderItem rows, index = id
  cancellationCount,  \* User.cancellationCount
  removed,            \* the ids of the Product rows that were deleted
  req,                \* the requests in flight, one per connection
  quota               \* number of requests the run still admits

vars ==
  <<stock, price, isActive, cart, orders, cancellationCount, removed, req,
    quota>>

db == <<stock, price, isActive, cart, orders, cancellationCount, removed>>

\* ---- helpers -------------------------------------------------------------
RECURSIVE SumTotal(_)
\* orderTotal: the reduce over cart.items of price * quantity
SumTotal(items) ==
  IF items = {} THEN 0
  ELSE LET it == CHOOSE x \in items : TRUE
       IN  it.price * it.quantity + SumTotal(items \ {it})

\* the quantity of product p among a set of items, 0 when it has no line
QtyOf(items, p) ==
  IF \E it \in items : it.productId = p
  THEN (CHOOSE it \in items : it.productId = p).quantity
  ELSE 0

\* variant of validTransitions: a DELIVERED order may still be cancelled
validTransitionsDeliveredOpen ==
  [s \in OrderStatus |->
     CASE s = "PENDING" -> {"SHIPPED", "CANCELLED"}
       [] s = "SHIPPED" -> {"DELIVERED", "CANCELLED"}
       [] s = "DELIVERED" -> {"CANCELLED"}
       [] s = "CANCELLED" -> {}]

\* validTransitions
validTransitions ==
  [s \in OrderStatus |->
     CASE s = "PENDING" -> {"SHIPPED", "CANCELLED"}
       [] s = "SHIPPED" -> {"DELIVERED", "CANCELLED"}
       [] s = "DELIVERED" -> {}
       [] s = "CANCELLED" -> {}]

isValidStatusTransition(currentStatus, newStatus) ==
  newStatus \in validTransitions[currentStatus]

\* variant of IsCancellable: only the final states are refused
IsCancellableUnlessFinal(status) == status \in {"PENDING", "SHIPPED"}

\* cancelOrder: order.status !== 'PENDING' is refused
IsCancellable(status) == status = "PENDING"

\* variant of LimitReached: the comparison is strict
LimitExceeded(count) == count > maxCancellationCount

\* cancelOrder: user.cancellationCount >= config.maxCancellationCount
LimitReached(count) == count >= maxCancellationCount

\* variant of OrderItemOf: the price is read from the product row
OrderItemAtCurrentPrice(cartItem) ==
  [productId |-> cartItem.productId, quantity |-> cartItem.quantity,
   price |-> price[cartItem.productId]]

\* the data of tx.orderItem.create: the price is the cart snapshot's price
OrderItemOf(cartItem) ==
  [productId |-> cartItem.productId, quantity |-> cartItem.quantity,
   price |-> cartItem.price]

\* stock: {decrement: cartItem.quantity}
DecrementedStock(cur, item) == cur - item.quantity

\* variant of RestoredStock: one unit per item
RestoredStockByOne(cur, item) == cur + 1

\* stock: {increment: item.quantity}
RestoredStock(cur, item) == cur + item.quantity

\* variant of WithStatus: the total is recomputed from the catalog prices
WithStatusRepriced(o, s) ==
  [orders EXCEPT ![o].status = s,
                 ![o].totalAmount =
                   SumTotal({[it EXCEPT !.price = price[it.productId]] :
                               it \in orders[o].items})]

\* order.update({data: {status}}): only the status column is written
WithStatus(o, s) == [orders EXCEPT ![o].status = s]

\* the body of a response that carries no order
NoOrder == [id |-> 0, status |-> "none", totalAmount |-> 0, items |-> {}]

\* variant of OrderView: the items carry the price of the product row
OrderViewAtProductPrice(o) ==
  [id |-> o, status |-> orders[o].status,
   totalAmount |-> orders[o].totalAmount,
   items |-> {[it EXCEPT !.price = price[it.productId]] :
                it \in orders[o].items}]

\* the order row with its OrderItem rows as findFirst({include: items})
\* returns it
OrderView(o) ==
  [id |-> o, status |-> orders[o].status,
   totalAmount |-> orders[o].totalAmount, items |-> orders[o].items]

\* a request body is a function from its keys to their values; a name or an
\* email is a number here
NoBody == [k \in {} |-> 0]

\* the keys of registerSchema.partial().omit({password: true, role: true})
ProfileKeys == {"name", "email"}

\* variant of ParsedProfile: unknown keys pass
ParsedProfileLoose(body) == body

\* validateBody: req.body becomes the parsed data, and a zod object schema
\* drops the keys it does not declare
ParsedProfile(body) == [k \in DOMAIN body \cap ProfileKeys |-> body[k]]

\* a connection with no request, and the fields of a request
IdleReq ==
  [pc |-> "idle", user |-> "none", oid |-> 0, status |-> "none",
   prod |-> "none", field |-> "none", val |-> 0, existing |-> 0,
   snap |-> {}, total |-> 0, todo |-> {}, items |-> {}, updates |-> <<>>,
   held |-> {}, txw |-> [p \in Products |-> 0],
   ordLock |-> 0, userLock |-> FALSE, cartDel |-> {}, result |-> "none",
   ret |-> NoOrder, data |-> NoBody]

\* the response is sent: only its outcome stays visible
Finish(r, res) == [IdleReq EXCEPT !.pc = "done", !.result = res]

CanStart(r) == req[r].pc \in {"idle", "done"} /\ quota > 0

\* the product rows as they are after transaction r commits
CommittedStock(r) ==
  [p \in Products |->
     IF p \in req[r].held THEN req[r].txw[p] ELSE stock[p]]

\* variant of Rollback: the pending stock writes stay
RollbackKeepsWrites(r) ==
  /\ stock' = CommittedStock(r)
  /\ UNCHANGED <<price, isActive, cart, orders, cancellationCount, removed>>

\* $transaction: an exception in the callback discards every pending write
Rollback(r) == UNCHANGED db

\* row locks held by open transactions
StockLockedByOther(r, p) == \E q \in Proc \ {r} : p \in req[q].held
OrderLockedByOther(r, o) == \E q \in Proc \ {r} : req[q].ordLock = o
UserLockedByOther(r, u) ==
  \E q \in Proc \ {r} : req[q].userLock /\ req[q].user = u
CartRowLockedByOther(r, u, p) ==
  \E q \in Proc \ {r} : req[q].user = u /\ p \in req[q].cartDel

\* getOrCreateCart: the cart lines whose product is active, with the product
ActiveCartItems(u) ==
  {[productId |-> p, quantity |-> cart[u][p], price |-> price[p]] :
     p \in {x \in Products : cart[u][x] > 0 /\ isActive[x]}}

\* ---- CartService.addToCart -----------------------------------------------
\* getOrCreateCart and the quantity already in the cart
AddToCartStart(r, u, p, q) ==
  /\ CanStart(r)
  /\ quota' = quota - 1
  /\ req' = [req EXCEPT ![r] =
       [IdleReq EXCEPT !.pc = "ac_prod", !.user = u, !.prod = p, !.val = q,
                       !.existing = QtyOf(ActiveCartItems(u), p)]]
  /\ UNCHANGED db

\* product.findFirst({id, isActive: true}) and the stock check
AddToCartCheck(r) ==
  /\ req[r].pc = "ac_prod"
  /\ LET p == req[r].prod IN
     req' = [req EXCEPT ![r] =
       IF p \in removed \/ ~isActive[p] THEN Finish(r, "NotFound")
       ELSE IF req[r].existing + req[r].val > stock[p]
            THEN Finish(r, "InsufficientStock")
            ELSE [req[r] EXCEPT !.pc = "ac_upsert"]]
  /\ UNCHANGED <<db, quota>>

\* cartItem.upsert: increment the row or create it
AddToCartUpsert(r) ==
  /\ req[r].pc = "ac_upsert"
  /\ ~CartRowLockedByOther(r, req[r].user, req[r].prod)
  /\ cart' = [cart EXCEPT ![req[r].user][req[r].prod] = @ + req[r].val]
  /\ req' = [req EXCEPT ![r] = Finish(r, "ok")]
  /\ UNCHANGED <<stock, price, isActive, orders, cancellationCount, quota, removed>>

\* ---- CartService.cleanupCart ----------------------------------------------
\* db.cart.findUnique with items and their products
CartItemsWithProduct(u) ==
  {[productId |-> p, quantity |-> cart[u][p], isActive |-> isActive[p],
    stock |-> stock[p]] : p \in {x \in Products : cart[u][x] > 0}}

\* the lines of inactive products and the lines over the stock
itemsToRemove(items) ==
  {it \in items : ~it.isActive \/ it.quantity > it.stock}

\* the lines the update loop walks
itemsToUpdate(items) ==
  {it \in items : /\ it.isActive
                  /\ it.quantity > 0
                  /\ it.quantity <= it.stock
                  /\ it \notin itemsToRemove(items)}

CleanupCartStart(r, u) ==
  /\ CanStart(r)
  /\ quota' = quota - 1
  /\ req' = [req EXCEPT ![r] =
       [IdleReq EXCEPT !.pc = "cl_remove", !.user = u,
                       !.snap = CartItemsWithProduct(u)]]
  /\ UNCHANGED db

\* db.cartItem.deleteMany({id: {in: itemsToRemove}})
CleanupCartRemove(r) ==
  /\ req[r].pc = "cl_remove"
  /\ cart' = [cart EXCEPT ![req[r].user] =
       [p \in Products |->
          IF \E it \in itemsToRemove(req[r].snap) : it.productId = p
          THEN 0 ELSE @[p]]]
  /\ req' = [req EXCEPT ![r] = [req[r] EXCEPT !.pc = "cl_update"]]
  /\ UNCHANGED <<stock, price, isActive, orders, cancellationCount, removed,
                 quota>>

\* the loop over itemsToUpdate: a line over the stock is set to the stock
CleanupCartUpdate(r) ==
  /\ req[r].pc = "cl_update"
  /\ cart' = [cart EXCEPT ![req[r].user] =
       [p \in Products |->
          IF \E it \in itemsToUpdate(req[r].snap) :
               it.productId = p /\ it.quantity > it.stock
          THEN (CHOOSE it \in itemsToUpdate(req[r].snap) :
                  it.productId = p).stock
          ELSE @[p]]]
  /\ req' = [req EXCEPT ![r] = Finish(r, "ok")]
  /\ UNCHANGED <<stock, price, isActive, orders, cancellationCount, removed,
                 quota>>

\* ---- OrderService.createOrder --------------------------------------------
CreateOrderStart(r, u) ==
  /\ CanStart(r)
  /\ quota' = quota - 1
  /\ req' = [req EXCEPT ![r] =
       [IdleReq EXCEPT !.pc = "co_validate", !.user = u]]
  /\ UNCHANGED db

\* validateCartForCheckout: the lines of the cart it reports
CartErrors(items) ==
  {it \in items : \/ ~isActive[it.productId]
                  \/ it.quantity > stock[it.productId]}

\* variant of CartRejected: an empty cart passes
CartRejectedOnErrors(items) == CartErrors(items) # {}

\* createOrder: !isValid, where validateCartForCheckout reports an empty
\* cart or the violating lines, and the cart.items.length === 0 check
CartRejected(items) == items = {} \/ CartErrors(items) # {}

\* cartService.validateCartForCheckout
CreateOrderValidate(r) ==
  /\ req[r].pc = "co_validate"
  /\ LET items == ActiveCartItems(req[r].user)
     IN req' = [req EXCEPT ![r] =
          IF CartRejected(items)
          THEN Finish(r, "CartInvalid")
          ELSE [req[r] EXCEPT !.pc = "co_pay", !.snap = items,
                              !.total = SumTotal(items)]]
  /\ UNCHANGED <<db, quota>>

\* variant of PaymentRefused: the cart is emptied before the payment is known
PaymentRefusedCartCleared(r) ==
  /\ cart' = [cart EXCEPT ![req[r].user] = [p \in Products |-> 0]]
  /\ UNCHANGED <<stock, price, isActive, orders, cancellationCount, removed>>

\* throw ApiError.badRequest('Payment failed: ...'): nothing was written yet
PaymentRefused(r) == UNCHANGED db

\* PaymentService.processPayment, then tx.order.create
CreateOrderPayment(r, success) ==
  /\ req[r].pc = "co_pay"
  /\ IF success
     THEN /\ req' = [req EXCEPT ![r] =
               [req[r] EXCEPT !.pc = "co_line", !.todo = req[r].snap]]
          /\ UNCHANGED db
     ELSE /\ req' = [req EXCEPT ![r] = Finish(r, "PaymentFailed")]
          /\ PaymentRefused(r)
  /\ UNCHANGED quota

\* tx.product.findUnique, the two re-checks and tx.orderItem.create
CreateOrderLine(r) ==
  /\ req[r].pc = "co_line"
  /\ \E it \in req[r].todo :
       LET p == it.productId IN
       IF p \in removed \/ ~isActive[p]
       THEN req' = [req EXCEPT ![r] = Finish(r, "Unavailable")] /\ Rollback(r)
       ELSE IF it.quantity > stock[p]
       THEN /\ req' = [req EXCEPT ![r] = Finish(r, "InsufficientStock")]
            /\ Rollback(r)
       ELSE /\ req' = [req EXCEPT ![r] =
                 [req[r] EXCEPT !.pc = "co_dec", !.prod = p,
                                !.todo = @ \ {it},
                                !.items = @ \cup {OrderItemOf(it)}]]
            /\ UNCHANGED db
  /\ UNCHANGED quota

\* tx.product.update({stock: {decrement}})
CreateOrderDecrement(r) ==
  /\ req[r].pc = "co_dec"
  /\ LET p == req[r].prod
         it == CHOOSE x \in req[r].items : x.productId = p
     IN /\ ~StockLockedByOther(r, p)
        /\ req' = [req EXCEPT ![r] =
             [req[r] EXCEPT !.pc = IF req[r].todo = {} THEN "co_clear"
                                   ELSE "co_line",
                            !.prod = "none",
                            !.held = @ \cup {p},
                            !.txw[p] = DecrementedStock(stock[p], it)]]
  /\ UNCHANGED <<db, quota>>

\* tx.cartItem.deleteMany({cartId})
CreateOrderClearCart(r) ==
  /\ req[r].pc = "co_clear"
  /\ \A p \in Products : ~CartRowLockedByOther(r, req[r].user, p)
  /\ req' = [req EXCEPT ![r] =
       [req[r] EXCEPT !.pc = "co_commit",
                      !.cartDel = {p \in Products : cart[req[r].user][p] > 0}]]
  /\ UNCHANGED <<db, quota>>

\* the transaction callback returns: the order, its items, the stock
\* decrements and the cart deletion become visible together
CreateOrderCommit(r) ==
  /\ req[r].pc = "co_commit"
  /\ orders' = Append(orders,
       [userId |-> req[r].user, status |-> "PENDING",
        totalAmount |-> req[r].total, items |-> req[r].items])
  /\ stock' = CommittedStock(r)
  /\ cart' = [cart EXCEPT ![req[r].user] =
       [p \in Products |-> IF p \in req[r].cartDel THEN 0 ELSE @[p]]]
  /\ req' = [req EXCEPT ![r] =
       [Finish(r, "ok") EXCEPT !.ret =
          [id |-> Len(orders) + 1, status |-> "PENDING",
           totalAmount |-> req[r].total, items |-> req[r].items]]]
  /\ UNCHANGED <<price, isActive, cancellationCount, quota, removed>>

\* ---- OrderService.getOrderById -------------------------------------------
\* variant of getOrderById: the owner is not part of the filter
getOrderByIdAnyOwner(o, u) == IF o \in 1..Len(orders) THEN o ELSE 0

\* findFirst({id, userId?}): 0 when no row matches
getOrderById(o, u) ==
  IF o \in 1..Len(orders) /\ (u = "none" \/ orders[o].userId = u) THEN o ELSE 0

\* OrderController.getOrderById: the request of user u for order o
GetOrderByIdStart(r, o, u) ==
  /\ CanStart(r)
  /\ quota' = quota - 1
  /\ req' = [req EXCEPT ![r] =
       [IdleReq EXCEPT !.pc = "go_find", !.oid = o, !.user = u]]
  /\ UNCHANGED db

\* db.order.findFirst and the response
GetOrderByIdFind(r) ==
  /\ req[r].pc = "go_find"
  /\ LET o == getOrderById(req[r].oid, req[r].user)
     IN req' = [req EXCEPT ![r] =
          IF o = 0 THEN Finish(r, "NotFound")
          ELSE [Finish(r, "ok") EXCEPT !.ret = OrderView(o)]]
  /\ UNCHANGED <<db, quota>>

\* ---- OrderService.updateOrderStatus --------------------------------------
UpdateOrderStatusStart(r, o, s) ==
  /\ CanStart(r)
  /\ quota' = quota - 1
  /\ req' = [req EXCEPT ![r] =
       [IdleReq EXCEPT !.pc = "us_get", !.oid = o, !.status = s]]
  /\ UNCHANGED db

\* getOrderById and isValidStatusTransition
UpdateOrderStatusCheck(r) ==
  /\ req[r].pc = "us_get"
  /\ LET o == getOrderById(req[r].oid, "none")
     IN req' = [req EXCEPT ![r] =
          IF o = 0 THEN Finish(r, "NotFound")
          ELSE IF ~isValidStatusTransition(orders[o].status, req[r].status)
          THEN Finish(r, "InvalidTransition")
          ELSE [req[r] EXCEPT !.pc = "us_write"]]
  /\ UNCHANGED <<db, quota>>

\* variant of UpdateOrderStatusWrite: a transition to CANCELLED also gives
\* the ordered units back to the stock
UpdateOrderStatusWriteRestoring(r) ==
  /\ req[r].pc = "us_write"
  /\ ~OrderLockedByOther(r, req[r].oid)
  /\ orders' = WithStatus(req[r].oid, req[r].status)
  /\ stock' = [p \in Products |->
                 IF req[r].status = "CANCELLED"
                 THEN stock[p] + QtyOf(orders[req[r].oid].items, p)
                 ELSE stock[p]]
  /\ req' = [req EXCEPT ![r] = Finish(r, "ok")]
  /\ UNCHANGED <<price, isActive, cart, cancellationCount, quota, removed>>

\* db.order.update({status})
UpdateOrderStatusWrite(r) ==
  /\ req[r].pc = "us_write"
  /\ ~OrderLockedByOther(r, req[r].oid)
  /\ orders' = WithStatus(req[r].oid, req[r].status)
  /\ req' = [req EXCEPT ![r] = Finish(r, "ok")]
  /\ UNCHANGED <<stock, price, isActive, cart, cancellationCount, quota, removed>>

\* ---- OrderService.cancelOrder --------------------------------------------
CancelOrderStart(r, o, u) ==
  /\ CanStart(r)
  /\ quota' = quota - 1
  /\ req' = [req EXCEPT ![r] =
       [IdleReq EXCEPT !.pc = "ca_get", !.oid = o, !.user = u]]
  /\ UNCHANGED db

\* getOrderById(orderId, userId) and the PENDING check
CancelOrderGet(r) ==
  /\ req[r].pc = "ca_get"
  /\ LET o == getOrderById(req[r].oid, req[r].user)
     IN req' = [req EXCEPT ![r] =
          IF o = 0 THEN Finish(r, "NotFound")
          ELSE IF ~IsCancellable(orders[o].status)
          THEN Finish(r, "NotPending")
          ELSE [req[r] EXCEPT !.pc = "ca_user", !.todo = orders[o].items]]
  /\ UNCHANGED <<db, quota>>

\* db.user.findUnique and the cancellation limit
CancelOrderCheckLimit(r) ==
  /\ req[r].pc = "ca_user"
  /\ req' = [req EXCEPT ![r] =
       IF LimitReached(cancellationCount[req[r].user])
       THEN Finish(r, "LimitReached")
       ELSE [req[r] EXCEPT !.pc = "ca_inc"]]
  /\ UNCHANGED <<db, quota>>

\* tx.product.update({stock: {increment}})
CancelOrderRestore(r) ==
  /\ req[r].pc = "ca_inc"
  /\ \E it \in req[r].todo :
       LET p == it.productId IN
       /\ ~StockLockedByOther(r, p)
       /\ req' = [req EXCEPT ![r] =
            [req[r] EXCEPT !.todo = @ \ {it},
                           !.held = @ \cup {p},
                           !.txw[p] = RestoredStock(stock[p], it),
                           !.pc = IF req[r].todo = {it} THEN "ca_status"
                                  ELSE "ca_inc"]]
  /\ UNCHANGED <<db, quota>>

\* tx.order.update({status: CANCELLED})
CancelOrderStatus(r) ==
  /\ req[r].pc = "ca_status"
  /\ ~OrderLockedByOther(r, req[r].oid)
  /\ req' = [req EXCEPT ![r] =
       [req[r] EXCEPT !.pc = "ca_count", !.ordLock = req[r].oid]]
  /\ UNCHANGED <<db, quota>>

\* tx.user.update({cancellationCount: {increment: 1}})
CancelOrderCount(r) ==
  /\ req[r].pc = "ca_count"
  /\ ~UserLockedByOther(r, req[r].user)
  /\ req' = [req EXCEPT ![r] =
       [req[r] EXCEPT !.pc = "ca_commit", !.userLock = TRUE]]
  /\ UNCHANGED <<db, quota>>

\* variant of CancelOrderCommit: the stock increments outlive a
\* transaction whose status and counter updates are lost
CancelOrderCommitStockOnly(r) ==
  /\ req[r].pc = "ca_commit"
  /\ stock' = CommittedStock(r)
  /\ req' = [req EXCEPT ![r] = Finish(r, "ok")]
  /\ UNCHANGED <<price, isActive, cart, orders, cancellationCount, quota, removed>>

\* the transaction callback returns: the stock increments, the status and
\* the counter become visible together
CancelOrderCommit(r) ==
  /\ req[r].pc = "ca_commit"
  /\ stock' = CommittedStock(r)
  /\ orders' = WithStatus(req[r].oid, "CANCELLED")
  /\ cancellationCount' =
       [cancellationCount EXCEPT ![req[r].user] = @ + 1]
  /\ req' = [req EXCEPT ![r] = Finish(r, "ok")]
  /\ UNCHANGED <<price, isActive, cart, quota, removed>>

\* ---- AuthService.updateProfile -------------------------------------------
\* PUT /auth/profile: validateBody, then the controller passes req.body on
UpdateProfileStart(r, u, body) ==
  /\ CanStart(r)
  /\ quota' = quota - 1
  /\ req' = [req EXCEPT ![r] =
       [IdleReq EXCEPT !.pc = "pr_write", !.user = u,
                       !.data = ParsedProfile(body)]]
  /\ UNCHANGED db

\* db.user.update({where: {id: userId}, data}): every column named in data
\* is written
UpdateProfileWrite(r) ==
  /\ req[r].pc = "pr_write"
  /\ ~UserLockedByOther(r, req[r].user)
  /\ cancellationCount' =
       IF "cancellationCount" \in DOMAIN req[r].data
       THEN [cancellationCount EXCEPT
               ![req[r].user] = req[r].data["cancellationCount"]]
       ELSE cancellationCount
  /\ req' = [req EXCEPT ![r] = Finish(r, "ok")]
  /\ UNCHANGED <<stock, price, isActive, cart, orders, quota, removed>>

\* ---- ProductService.updateProduct ----------------------------------------
\* data carries one field, "price" or "stock"; getProductById and the
\* two validations come first
UpdateProductStart(r, p, field, v) ==
  /\ CanStart(r)
  /\ quota' = quota - 1
  /\ req' = [req EXCEPT ![r] =
       IF (field = "stock" /\ v < 0) \/ (field = "price" /\ v <= 0)
       THEN Finish(r, "BadRequest")
       ELSE [IdleReq EXCEPT !.pc = "up_write", !.prod = p, !.field = field,
                            !.val = v]]
  /\ UNCHANGED db

\* db.product.update({where: {id}, data})
UpdateProductWrite(r) ==
  /\ req[r].pc = "up_write"
  /\ ~StockLockedByOther(r, req[r].prod)
  /\ IF req[r].field = "stock"
     THEN /\ stock' = [stock EXCEPT ![req[r].prod] = req[r].val]
          /\ UNCHANGED price
     ELSE /\ price' = [price EXCEPT ![req[r].prod] = req[r].val]
          /\ UNCHANGED stock
  /\ req' = [req EXCEPT ![r] = Finish(r, "ok")]
  /\ UNCHANGED <<isActive, cart, orders, cancellationCount, quota, removed>>

\* ---- ProductService.deleteProduct / restoreProduct -----------------------
DeleteProductStart(r, p) ==
  /\ CanStart(r)
  /\ quota' = quota - 1
  /\ req' = [req EXCEPT ![r] =
       [IdleReq EXCEPT !.pc = "dp_write", !.prod = p]]
  /\ UNCHANGED db

DeleteProductWrite(r) ==
  /\ req[r].pc = "dp_write"
  /\ ~StockLockedByOther(r, req[r].prod)
  /\ isActive' = [isActive EXCEPT ![req[r].prod] = FALSE]
  /\ req' = [req EXCEPT ![r] = Finish(r, "ok")]
  /\ UNCHANGED <<stock, price, cart, orders, cancellationCount, quota, removed>>

RestoreProductStart(r, p) ==
  /\ CanStart(r)
  /\ quota' = quota - 1
  /\ req' = [req EXCEPT ![r] =
       IF isActive[p] THEN Finish(r, "BadRequest")
       ELSE [IdleReq EXCEPT !.pc = "rp_write", !.prod = p]]
  /\ UNCHANGED db

RestoreProductWrite(r) ==
  /\ req[r].pc = "rp_write"
  /\ ~StockLockedByOther(r, req[r].prod)
  /\ isActive' = [isActive EXCEPT ![req[r].prod] = TRUE]
  /\ req' = [req EXCEPT ![r] = Finish(r, "ok")]
  /\ UNCHANGED <<stock, price, cart, orders, cancellationCount, quota, removed>>

\* ---- OrderService.getRevenueByd -------------------------------------------
\* a small calendar: createdAt is a day number counted from day 0 of year 0;
\* weeks do not line up with months
DaysPerWeek == 2
DaysPerMonth == 3
MonthsPerYear == 2
DaysPerYear == DaysPerMonth * MonthsPerYear
\* new Date(): the day of the request, the last day of the second year
Today == 2 * DaysPerYear - 1
Days == 0..Today
Periods == {"day", "week", "month", "year"}

\* createdAt.toISOString().split('T')[0]: year, month and day of the month
dateKey(d) ==
  <<d \div DaysPerYear, (d % DaysPerYear) \div DaysPerMonth, d % DaysPerMonth>>

\* a.date.localeCompare(b.date) < 0 on keys of one width
DateBefore(a, b) ==
  \/ a[1] < b[1]
  \/ a[1] = b[1] /\ a[2] < b[2]
  \/ a[1] = b[1] /\ a[2] = b[2] /\ a[3] < b[3]

\* order.findMany: createdAt in the window of the last limit days, status
\* not CANCELLED
RevenueOrders(limit) ==
  {i \in 1..Len(orders) : /\ orders[i].createdAt >= Today - limit
                          /\ orders[i].createdAt <= Today
                          /\ orders[i].status # "CANCELLED"}

RECURSIVE SumAmount(_)
\* the reduce of existing.revenue + Number(order.totalAmount)
SumAmount(ids) ==
  IF ids = {} THEN 0
  ELSE LET i == CHOOSE x \in ids : TRUE
       IN  orders[i].totalAmount + SumAmount(ids \ {i})

\* the entry of revenueMap under one key
RevenueEntry(ids, k) ==
  LET same == {i \in ids : dateKey(orders[i].createdAt) = k}
  IN  [date |-> k, revenue |-> SumAmount(same), orderCount |-> Cardinality(same)]

RECURSIVE SortedByDate(_)
\* Array.from(revenueMap.entries()).sort by date
SortedByDate(entries) ==
  IF entries = {} THEN <<>>
  ELSE LET first == CHOOSE e \in entries :
                      \A f \in entries \ {e} : DateBefore(e.date, f.date)
       IN  <<first>> \o SortedByDate(entries \ {first})

\* the key of every order is its dateKey, whatever the period
getRevenueByd(period, limit) ==
  LET ids == RevenueOrders(limit)
      keys == {dateKey(orders[i].createdAt) : i \in ids}
  IN  SortedByDate({RevenueEntry(ids, k) : k \in keys})

GetRevenueStart(r, period, limit) ==
  /\ CanStart(r)
  /\ quota' = quota - 1
  /\ req' = [req EXCEPT ![r] =
       [IdleReq EXCEPT !.pc = "rv_find", !.field = period, !.val = limit]]
  /\ UNCHANGED db

GetRevenueFind(r) ==
  /\ req[r].pc = "rv_find"
  /\ req' = [req EXCEPT ![r] =
       [Finish(r, "ok") EXCEPT
          !.updates = getRevenueByd(req[r].field, req[r].val)]]
  /\ UNCHANGED <<db, quota>>

\* ---- ProductService.hardDeleteProduct ------------------------------------
\* variant of handlePrismaError: a foreign key violation is not handled
handlePrismaErrorFkUnhandled(code) ==
  CASE code = "P2001" -> "NotFound"
    [] code = "P2002" -> "Conflict"
    [] code = "P2025" -> "NotFound"
    [] code = "P2014" -> "BadRequest"
    [] OTHER -> "InternalError"

\* errorHandler: the response of a PrismaClientKnownRequestError
handlePrismaError(code) ==
  CASE code = "P2001" -> "NotFound"
    [] code = "P2002" -> "Conflict"
    [] code = "P2003" -> "BadRequest"
    [] code = "P2025" -> "NotFound"
    [] code = "P2014" -> "BadRequest"
    [] OTHER -> "InternalError"

\* db.orderItem.count({where: {productId}}): the committed items of product
\* p; an order has at most one item per product
OrderItemCount(p) ==
  Cardinality({o \in 1..Len(orders) :
                 \E it \in orders[o].items : it.productId = p})

\* the foreign key OrderItem.productId -> Product.id: a product row that an
\* order item references cannot be deleted
OrderItemFkViolated(p) == OrderItemCount(p) > 0

\* an open transaction inserted an order item of product p: until it ends
\* the foreign key check holds a share lock on the product row
ProductKeyLockedByOther(r, p) ==
  \E q \in Proc \ {r} : \E it \in req[q].items : it.productId = p

\* getProductById(id, true)
HardDeleteProductStart(r, p) ==
  /\ CanStart(r)
  /\ quota' = quota - 1
  /\ req' = [req EXCEPT ![r] =
       IF p \in removed THEN Finish(r, "NotFound")
       ELSE [IdleReq EXCEPT !.pc = "hd_count", !.prod = p]]
  /\ UNCHANGED db

\* db.orderItem.count and the order-history check
HardDeleteProductCount(r) ==
  /\ req[r].pc = "hd_count"
  /\ req' = [req EXCEPT ![r] =
       IF OrderItemCount(req[r].prod) > 0 THEN Finish(r, "BadRequest")
       ELSE [req[r] EXCEPT !.pc = "hd_carts"]]
  /\ UNCHANGED <<db, quota>>

\* db.cartItem.deleteMany({where: {productId}})
HardDeleteProductCarts(r) ==
  /\ req[r].pc = "hd_carts"
  /\ \A u \in Users : ~CartRowLockedByOther(r, u, req[r].prod)
  /\ cart' = [u \in Users |-> [cart[u] EXCEPT ![req[r].prod] = 0]]
  /\ req' = [req EXCEPT ![r] = [req[r] EXCEPT !.pc = "hd_delete"]]
  /\ UNCHANGED <<stock, price, isActive, orders, cancellationCount, removed,
                 quota>>

\* db.product.delete({where: {id}})
HardDeleteProductDelete(r) ==
  /\ req[r].pc = "hd_delete"
  /\ ~StockLockedByOther(r, req[r].prod)
  /\ ~ProductKeyLockedByOther(r, req[r].prod)
  /\ IF OrderItemFkViolated(req[r].prod)
     THEN /\ req' = [req EXCEPT ![r] = Finish(r, handlePrismaError("P2003"))]
          /\ UNCHANGED db
     ELSE /\ removed' = removed \cup {req[r].prod}
          /\ req' = [req EXCEPT ![r] = Finish(r, "ok")]
          /\ UNCHANGED <<stock, price, isActive, cart, orders,
                         cancellationCount>>
  /\ UNCHANGED quota

\* ---- ProductService.bulkUpdateStock --------------------------------------
\* updates: a sequence of [id, stock]
BulkInputs ==
  {<<[id |-> p, stock |-> v]>> : p \in Products, v \in {-1, 0}}
  \cup {<<[id |-> "p1", stock |-> 0], [id |-> "p2", stock |-> v]>> :
          v \in {-1, 0}}

BulkUpdateStockStart(r, updates) ==
  /\ CanStart(r)
  /\ quota' = quota - 1
  /\ req' = [req EXCEPT ![r] =
       [IdleReq EXCEPT !.pc = "bu_line", !.updates = updates]]
  /\ UNCHANGED db

\* the check of one update and tx.product.update({stock})
BulkUpdateStockLine(r) ==
  /\ req[r].pc = "bu_line"
  /\ LET update == Head(req[r].updates) IN
     IF update.stock < 0
     THEN req' = [req EXCEPT ![r] = Finish(r, "BadRequest")] /\ Rollback(r)
     ELSE /\ ~StockLockedByOther(r, update.id)
          /\ req' = [req EXCEPT ![r] =
               [req[r] EXCEPT !.updates = Tail(@),
                              !.held = @ \cup {update.id},
                              !.txw[update.id] = update.stock,
                              !.pc = IF Len(req[r].updates) = 1
                                     THEN "bu_commit" ELSE "bu_line"]]
          /\ UNCHANGED db
  /\ UNCHANGED quota

BulkUpdateStockCommit(r) ==
  /\ req[r].pc = "bu_commit"
  /\ stock' = CommittedStock(r)
  /\ req' = [req EXCEPT ![r] = Finish(r, "ok")]
  /\ UNCHANGED <<price, isActive, cart, orders, cancellationCount, quota, removed>>

\* ---- deadlock detection of the store -------------------------------------
\* transaction r waits for a row lock that transaction q holds
Blocked(r, q) ==
  \/ req[r].pc = "co_dec" /\ req[r].prod \in req[q].held
  \/ /\ req[r].pc = "bu_line"
     /\ Head(req[r].updates).stock >= 0
     /\ Head(req[r].updates).id \in req[q].held
  \/ /\ req[r].pc = "ca_inc"
     /\ \A it \in req[r].todo : it.productId \in req[q].held
  \/ req[r].pc = "ca_status" /\ req[q].ordLock = req[r].oid
  \/ req[r].pc = "ca_count" /\ req[q].userLock /\ req[q].user = req[r].user

\* PostgreSQL aborts one transaction of a wait cycle
DeadlockAbort(r) ==
  /\ \E q \in Proc \ {r} : Blocked(r, q) /\ Blocked(q, r)
  /\ req' = [req EXCEPT ![r] = Finish(r, "Deadlock")]
  /\ Rollback(r)
  /\ UNCHANGED quota

\* ---- specification -------------------------------------------------------
\* the carts the customers have filled before they check out
InitCarts ==
  {c \in [Users -> [Products -> 0..MaxStock]] :
     /\ c["u1"]["p1"] > 0
     /\ c["u1"]["p2"] \in {0, c["u1"]["p1"]}
     /\ c["u2"]["p1"] = c["u1"]["p1"]
     /\ c["u2"]["p2"] = 0}

Init ==
  /\ \E s \in {1, MaxStock} : stock = [p \in Products |-> s]
  /\ price = [p \in Products |-> 1]
  /\ isActive = [p \in Products |-> TRUE]
  /\ cart \in {c \in InitCarts :
                 \A u \in Users, p \in Products : c[u][p] <= stock[p]}
  /\ orders = <<>>
  /\ cancellationCount = [u \in Users |-> 0]
  /\ removed = {}
  /\ req = [r \in Proc |-> IdleReq]
  /\ quota = MaxRequests

\* the product the admin edits while the customers check out; the other
\* product is the second line of a cart
Edited == {"p1"}

OrderIdInputs == 1..(Len(orders) + 1)

Next ==
  \/ \E r \in Proc, u \in Users : CreateOrderStart(r, u)
  \/ \E r \in Proc : CreateOrderValidate(r)
  \/ \E r \in Proc, s \in BOOLEAN : CreateOrderPayment(r, s)
  \/ \E r \in Proc : CreateOrderLine(r)
  \/ \E r \in Proc : CreateOrderDecrement(r)
  \/ \E r \in Proc : CreateOrderClearCart(r)
  \/ \E r \in Proc : CreateOrderCommit(r)
  \/ \E r \in Proc, o \in OrderIdInputs, s \in OrderStatus :
       UpdateOrderStatusStart(r, o, s)
  \/ \E r \in Proc : UpdateOrderStatusCheck(r)
  \/ \E r \in Proc : UpdateOrderStatusWrite(r)
  \/ \E r \in Proc, o \in OrderIdInputs, u \in Users : CancelOrderStart(r, o, u)
  \/ \E r \in Proc : CancelOrderGet(r)
  \/ \E r \in Proc : CancelOrderCheckLimit(r)
  \/ \E r \in Proc : CancelOrderRestore(r)
  \/ \E r \in Proc : CancelOrderStatus(r)
  \/ \E r \in Proc : CancelOrderCount(r)
  \/ \E r \in Proc : CancelOrderCommit(r)
  \/ \E r \in Proc, p \in Edited, v \in {-1, 0, MaxStock} :
       UpdateProductStart(r, p, "stock", v)
  \/ \E r \in Proc, p \in Edited, v \in {0, MaxPrice} :
       UpdateProductStart(r, p, "price", v)
  \/ \E r \in Proc : UpdateProductWrite(r)
  \/ \E r \in Proc, p \in Edited : DeleteProductStart(r, p)
  \/ \E r \in Proc : DeleteProductWrite(r)
  \/ \E r \in Proc, p \in Edited : RestoreProductStart(r, p)
  \/ \E r \in Proc : RestoreProductWrite(r)
  \/ \E r \in Proc : DeadlockAbort(r)

Spec == Init /\ [][Next]_vars

\* ---- one connection, one customer, one product: requests run in turn -----
InitSeq ==
  /\ stock = [p \in Products |-> 1]
  /\ price = [p \in Products |-> 1]
  /\ isActive = [p \in Products |-> TRUE]
  /\ cart = [u \in Users |-> [p \in Products |-> 0]]
  /\ orders = <<>>
  /\ cancellationCount = [u \in Users |-> 0]
  /\ removed = {}
  /\ req = [r \in Proc |-> IdleReq]
  /\ quota = MaxSeqRequests

NextSeq ==
  \/ AddToCartStart("r1", "u1", "p1", 1)
  \/ AddToCartCheck("r1")
  \/ AddToCartUpsert("r1")
  \/ CreateOrderStart("r1", "u1")
  \/ CreateOrderValidate("r1")
  \/ \E s \in BOOLEAN : CreateOrderPayment("r1", s)
  \/ CreateOrderLine("r1")
  \/ CreateOrderDecrement("r1")
  \/ CreateOrderClearCart("r1")
  \/ CreateOrderCommit("r1")
  \/ \E o \in OrderIdInputs, s \in OrderStatus :
       UpdateOrderStatusStart("r1", o, s)
  \/ UpdateOrderStatusCheck("r1")
  \/ UpdateOrderStatusWrite("r1")
  \/ \E o \in OrderIdInputs : CancelOrderStart("r1", o, "u1")
  \/ CancelOrderGet("r1")
  \/ CancelOrderCheckLimit("r1")
  \/ CancelOrderRestore("r1")
  \/ CancelOrderStatus("r1")
  \/ CancelOrderCount("r1")
  \/ CancelOrderCommit("r1")

SpecSeq == InitSeq /\ [][NextSeq]_vars

\* ---- two customers check out the last unit of one product ----------------
InitRace ==
  /\ stock = [p \in Products |-> 1]
  /\ price = [p \in Products |-> 1]
  /\ isActive = [p \in Products |-> TRUE]
  /\ cart \in {c \in [Users -> [Products -> 0..1]] :
                 \A u \in Users : c[u]["p1"] = 1}
  /\ orders = <<>>
  /\ cancellationCount = [u \in Users |-> 0]
  /\ removed = {}
  /\ req = [r \in Proc |-> IdleReq]
  /\ quota = Cardinality(Users)

NextRace ==
  \/ req["r1"].pc = "idle" /\ CreateOrderStart("r1", "u1")
  \/ req["r2"].pc = "idle" /\ CreateOrderStart("r2", "u2")
  \/ \E r \in Proc : CreateOrderValidate(r)
  \/ \E r \in Proc, s \in BOOLEAN : CreateOrderPayment(r, s)
  \/ \E r \in Proc : CreateOrderLine(r)
  \/ \E r \in Proc : CreateOrderDecrement(r)
  \/ \E r \in Proc : CreateOrderClearCart(r)
  \/ \E r \in Proc : CreateOrderCommit(r)

SpecRace == InitRace /\ [][NextRace]_vars

\* ---- the admin edits the catalog while one customer checks out -----------
NextCatalog ==
  \/ req["r1"].pc = "idle" /\ CreateOrderStart("r1", "u1")
  \/ CreateOrderValidate("r1")
  \/ \E s \in BOOLEAN : CreateOrderPayment("r1", s)
  \/ CreateOrderLine("r1")
  \/ CreateOrderDecrement("r1")
  \/ CreateOrderClearCart("r1")
  \/ CreateOrderCommit("r1")
  \/ \E p \in Products, v \in -1..MaxStock :
       UpdateProductStart("r2", p, "stock", v)
  \/ \E p \in Products, v \in 0..MaxPrice :
       UpdateProductStart("r2", p, "price", v)
  \/ UpdateProductWrite("r2")
  \/ \E p \in Products : DeleteProductStart("r2", p)
  \/ DeleteProductWrite("r2")
  \/ \E p \in Products : RestoreProductStart("r2", p)
  \/ RestoreProductWrite("r2")
  \/ \E b \in BulkInputs : BulkUpdateStockStart("r2", b)
  \/ BulkUpdateStockLine("r2")
  \/ BulkUpdateStockCommit("r2")

SpecCatalog == Init /\ [][NextCatalog]_vars

\* ---- a customer checks out and reads the order back ---------------------
\* the admin may reprice products in the meantime
NextRoundTrip ==
  \/ req["r1"].pc = "idle" /\ CreateOrderStart("r1", "u1")
  \/ CreateOrderValidate("r1")
  \/ \E s \in BOOLEAN : CreateOrderPayment("r1", s)
  \/ CreateOrderLine("r1")
  \/ CreateOrderDecrement("r1")
  \/ CreateOrderClearCart("r1")
  \/ CreateOrderCommit("r1")
  \/ /\ req["r1"].pc = "done" /\ req["r1"].result = "ok"
     /\ req["r2"].ret = NoOrder
     /\ GetOrderByIdStart("r2", req["r1"].ret.id, "u1")
  \/ GetOrderByIdFind("r2")
  \/ /\ req["r2"].ret = NoOrder
     /\ \E p \in Products, v \in 1..MaxPrice :
          UpdateProductStart("r2", p, "price", v)
  \/ UpdateProductWrite("r2")

SpecRoundTrip == Init /\ [][NextRoundTrip]_vars

\* ---- a customer orders and cancels, another customer tries to cancel -----
NextOwner ==
  \/ req["r1"].pc = "idle" /\ CreateOrderStart("r1", "u1")
  \/ CreateOrderValidate("r1")
  \/ \E s \in BOOLEAN : CreateOrderPayment("r1", s)
  \/ CreateOrderLine("r1")
  \/ CreateOrderDecrement("r1")
  \/ CreateOrderClearCart("r1")
  \/ CreateOrderCommit("r1")
  \/ \E o \in 1..Len(orders) : CancelOrderStart("r1", o, "u1")
  \/ \E o \in 1..Len(orders) : CancelOrderStart("r2", o, "u2")
  \/ \E r \in Proc : CancelOrderGet(r)
  \/ \E r \in Proc : CancelOrderCheckLimit(r)
  \/ \E r \in Proc : CancelOrderRestore(r)
  \/ \E r \in Proc : CancelOrderStatus(r)
  \/ \E r \in Proc : CancelOrderCount(r)
  \/ \E r \in Proc : CancelOrderCommit(r)

SpecOwner == Init /\ [][NextOwner]_vars

\* ---- a customer one cancellation short of the limit cancels two orders ---
\* u1 has cancelled before and holds two PENDING orders that took the last
\* units of the stock
InitCap ==
  /\ stock = [p \in Products |-> 0]
  /\ price = [p \in Products |-> 1]
  /\ isActive = [p \in Products |-> TRUE]
  /\ cart = [u \in Users |-> [p \in Products |-> 0]]
  /\ \E p \in Products :
       orders = [i \in 1..2 |->
                  [userId |-> "u1", status |-> "PENDING", totalAmount |-> 1,
                   items |-> {[productId |-> IF i = 1 THEN "p1" ELSE p,
                               quantity |-> 1, price |-> 1]}]]
  /\ \E c \in {maxCancellationCount - 2, maxCancellationCount - 1} :
       cancellationCount = [u \in Users |-> IF u = "u1" THEN c ELSE 0]
  /\ removed = {}
  /\ req = [r \in Proc |-> IdleReq]
  /\ quota = MaxRequests

\* the bodies a customer sends to PUT /auth/profile
ProfileBodies ==
  {[k \in {"name"} |-> 1],
   [k \in {"name", "cancellationCount"} |-> IF k = "name" THEN 1 ELSE 0]}

NextCap ==
  \/ \E r \in Proc, b \in ProfileBodies : UpdateProfileStart(r, "u1", b)
  \/ \E r \in Proc : UpdateProfileWrite(r)
  \/ \E r \in Proc, o \in 1..Len(orders) : CancelOrderStart(r, o, "u1")
  \/ \E r \in Proc : CancelOrderGet(r)
  \/ \E r \in Proc : CancelOrderCheckLimit(r)
  \/ \E r \in Proc : CancelOrderRestore(r)
  \/ \E r \in Proc : CancelOrderStatus(r)
  \/ \E r \in Proc : CancelOrderCount(r)
  \/ \E r \in Proc : CancelOrderCommit(r)

SpecCap == InitCap /\ [][NextCap]_vars

\* ---- the order router -----------------------------------------------------
Roles == {"ADMIN", "CUSTOMER"}

\* authorize(allowedRoles): the request passes when its role is allowed
authorize(allowedRoles, role) == role \in allowedRoles

\* variant of orderRoutes: requireAdmin is mounted after the admin routes
orderRoutesAdminLast ==
  <<[path |-> "use", allow |-> Roles],
    [path |-> "POST /", allow |-> {}],
    [path |-> "PATCH /:id/cancel", allow |-> {}],
    [path |-> "PUT /:id/status", allow |-> {}],
    [path |-> "GET /admin/statistics", allow |-> {}],
    [path |-> "GET /admin/recent", allow |-> {}],
    [path |-> "GET /admin/revenue", allow |-> {}],
    [path |-> "use", allow |-> {"ADMIN"}]>>

\* the router's stack in mounting order: router.use(requireAuthenticated),
\* the customer routes, router.use(requireAdmin), the admin routes
orderRoutes ==
  <<[path |-> "use", allow |-> Roles],
    [path |-> "POST /", allow |-> {}],
    [path |-> "PATCH /:id/cancel", allow |-> {}],
    [path |-> "use", allow |-> {"ADMIN"}],
    [path |-> "PUT /:id/status", allow |-> {}],
    [path |-> "GET /admin/statistics", allow |-> {}],
    [path |-> "GET /admin/recent", allow |-> {}],
    [path |-> "GET /admin/revenue", allow |-> {}]>>

RECURSIVE Dispatch(_, _, _)
\* express walks the stack: a middleware answers 403 or calls next(), the
\* first route that matches runs its handler
Dispatch(stack, role, path) ==
  IF stack = <<>> THEN "NotFound"
  ELSE LET layer == Head(stack) IN
       IF layer.path = "use"
       THEN IF authorize(layer.allow, role)
            THEN Dispatch(Tail(stack), role, path)
            ELSE "Forbidden"
       ELSE IF layer.path = path THEN "handler"
            ELSE Dispatch(Tail(stack), role, path)

RoutePaths ==
  {"POST /", "PATCH /:id/cancel", "PUT /:id/status", "GET /admin/statistics",
   "GET /admin/recent", "GET /admin/revenue"}

\* a request of user u, whose access token carries role, to the order router
OrderRouteRequest(r, u, role, path, o, s) ==
  LET d == Dispatch(orderRoutes, role, path) IN
  IF d # "handler"
  THEN /\ CanStart(r)
       /\ quota' = quota - 1
       /\ req' = [req EXCEPT ![r] = Finish(r, d)]
       /\ UNCHANGED db
  ELSE CASE path = "POST /" -> CreateOrderStart(r, u)
         [] path = "PATCH /:id/cancel" -> CancelOrderStart(r, o, u)
         [] path = "PUT /:id/status" -> UpdateOrderStatusStart(r, o, s)
         [] OTHER -> /\ CanStart(r)
                     /\ quota' = quota - 1
                     /\ req' = [req EXCEPT ![r] = Finish(r, "ok")]
                     /\ UNCHANGED db

\* connection r1 carries the token of customer u1, r2 that of admin u2
NextRoutes ==
  \/ \E path \in RoutePaths, o \in OrderIdInputs, s \in OrderStatus :
       OrderRouteRequest("r1", "u1", "CUSTOMER", path, o, s)
  \/ \E path \in RoutePaths, o \in OrderIdInputs, s \in OrderStatus :
       OrderRouteRequest("r2", "u2", "ADMIN", path, o, s)
  \/ \E r \in Proc : CreateOrderValidate(r)
  \/ \E r \in Proc, s \in BOOLEAN : CreateOrderPayment(r, s)
  \/ \E r \in Proc : CreateOrderLine(r)
  \/ \E r \in Proc : CreateOrderDecrement(r)
  \/ \E r \in Proc : CreateOrderClearCart(r)
  \/ \E r \in Proc : CreateOrderCommit(r)
  \/ \E r \in Proc : UpdateOrderStatusCheck(r)
  \/ \E r \in Proc : UpdateOrderStatusWrite(r)
  \/ \E r \in Proc : CancelOrderGet(r)
  \/ \E r \in Proc : CancelOrderCheckLimit(r)
  \/ \E r \in Proc : CancelOrderRestore(r)
  \/ \E r \in Proc : CancelOrderStatus(r)
  \/ \E r \in Proc : CancelOrderCount(r)
  \/ \E r \in Proc : CancelOrderCommit(r)

SpecRoutes == Init /\ [][NextRoutes]_vars

\* ---- one customer fills the cart and checks out on two connections -------
InitCart ==
  /\ \E s \in 1..MaxStock : stock = [p \in Products |-> s]
  /\ price = [p \in Products |-> 1]
  /\ isActive = [p \in Products |-> TRUE]
  /\ \E q \in 0..MaxStock :
       /\ q <= stock["p1"]
       /\ cart = [u \in Users |-> [p \in Products |->
                    IF u = "u1" /\ p = "p1" THEN q ELSE 0]]
  /\ orders = <<>>
  /\ cancellationCount = [u \in Users |-> 0]
  /\ removed = {}
  /\ req = [r \in Proc |-> IdleReq]
  /\ quota = MaxRequests

NextCart ==
  \/ \E r \in Proc, p \in Products, q \in 1..MaxStock :
       AddToCartStart(r, "u1", p, q)
  \/ \E r \in Proc : AddToCartCheck(r)
  \/ \E r \in Proc : AddToCartUpsert(r)
  \/ \E r \in Proc : CreateOrderStart(r, "u1")
  \/ \E r \in Proc : CreateOrderValidate(r)
  \/ \E r \in Proc, s \in BOOLEAN : CreateOrderPayment(r, s)
  \/ \E r \in Proc : CreateOrderLine(r)
  \/ \E r \in Proc : CreateOrderDecrement(r)
  \/ \E r \in Proc : CreateOrderClearCart(r)
  \/ \E r \in Proc : CreateOrderCommit(r)
  \/ \E r \in Proc : DeadlockAbort(r)

SpecCart == InitCart /\ [][NextCart]_vars

\* ---- the admin hard-deletes products while customers check out -----------
NextHardDelete ==
  \/ \E u \in Users : CreateOrderStart("r1", u)
  \/ CreateOrderValidate("r1")
  \/ \E s \in BOOLEAN : CreateOrderPayment("r1", s)
  \/ CreateOrderLine("r1")
  \/ CreateOrderDecrement("r1")
  \/ CreateOrderClearCart("r1")
  \/ CreateOrderCommit("r1")
  \/ \E p \in Products : HardDeleteProductStart("r2", p)
  \/ HardDeleteProductCount("r2")
  \/ HardDeleteProductCarts("r2")
  \/ HardDeleteProductDelete("r2")

SpecHardDelete == Init /\ [][NextHardDelete]_vars

\* ---- checkout, cancellation and status updates; no admin product edits ---
NextOrders ==
  \/ \E r \in Proc, u \in Users : CreateOrderStart(r, u)
  \/ \E r \in Proc : CreateOrderValidate(r)
  \/ \E r \in Proc, s \in BOOLEAN : CreateOrderPayment(r, s)
  \/ \E r \in Proc : CreateOrderLine(r)
  \/ \E r \in Proc : CreateOrderDecrement(r)
  \/ \E r \in Proc : CreateOrderClearCart(r)
  \/ \E r \in Proc : CreateOrderCommit(r)
  \/ \E r \in Proc, o \in OrderIdInputs, s \in OrderStatus :
       UpdateOrderStatusStart(r, o, s)
  \/ \E r \in Proc : UpdateOrderStatusCheck(r)
  \/ \E r \in Proc : UpdateOrderStatusWrite(r)
  \/ \E r \in Proc, o \in OrderIdInputs, u \in Users : CancelOrderStart(r, o, u)
  \/ \E r \in Proc : CancelOrderGet(r)
  \/ \E r \in Proc : CancelOrderCheckLimit(r)
  \/ \E r \in Proc : CancelOrderRestore(r)
  \/ \E r \in Proc : CancelOrderStatus(r)
  \/ \E r \in Proc : CancelOrderCount(r)
  \/ \E r \in Proc : CancelOrderCommit(r)

SpecOrders == Init /\ [][NextOrders]_vars

\* ---- one customer adds to the cart on two connections; stock is constant -
NextAdd ==
  \/ \E r \in Proc, p \in Products, q \in 1..MaxStock :
       AddToCartStart(r, "u1", p, q)
  \/ \E r \in Proc : AddToCartCheck(r)
  \/ \E r \in Proc : AddToCartUpsert(r)

SpecAdd == InitCart /\ [][NextAdd]_vars

\* ---- a customer cleans up a cart with stale lines -------------------------
InitCleanup ==
  /\ stock \in [Products -> 0..MaxStock]
  /\ price = [p \in Products |-> 1]
  /\ isActive \in [Products -> BOOLEAN]
  /\ \E c \in [Products -> 0..(MaxStock + 1)] :
       cart = [u \in Users |-> IF u = "u1" THEN c
                                ELSE [p \in Products |-> 0]]
  /\ orders = <<>>
  /\ cancellationCount = [u \in Users |-> 0]
  /\ removed = {}
  /\ req = [r \in Proc |-> IdleReq]
  /\ quota = MaxRequests

NextCleanup ==
  \/ CleanupCartStart("r1", "u1")
  \/ CleanupCartRemove("r1")
  \/ CleanupCartUpdate("r1")

SpecCleanup == InitCleanup /\ [][NextCleanup]_vars

\* ---- the admin reads the revenue of a table of two orders -----------------
RevenueLimits == {DaysPerWeek, DaysPerYear}

InitRevenue ==
  /\ stock = [p \in Products |-> 1]
  /\ price = [p \in Products |-> 1]
  /\ isActive = [p \in Products |-> TRUE]
  /\ cart = [u \in Users |-> [p \in Products |-> 0]]
  /\ \E d \in [1..2 -> Days], a \in [1..2 -> 1..MaxPrice],
        s \in [1..2 -> {"PENDING", "CANCELLED"}] :
       orders = [i \in 1..2 |->
                  [userId |-> "u1", status |-> s[i], totalAmount |-> a[i],
                   items |-> {[productId |-> "p1", quantity |-> a[i],
                               price |-> 1]},
                   createdAt |-> d[i]]]
  /\ cancellationCount = [u \in Users |-> 0]
  /\ removed = {}
  /\ req = [r \in Proc |-> IdleReq]
  /\ quota = MaxRequests

NextRevenue ==
  \/ \E p \in Periods, l \in RevenueLimits : GetRevenueStart("r1", p, l)
  \/ GetRevenueFind("r1")

SpecRevenue == InitRevenue /\ [][NextRevenue]_vars

\* ==== properties ==========================================================
OrderIds == 1..Len(orders)

\* the step is a step of connection r
StepOf(r) == req'[r] # req[r]

\* C1: in every reachable state every product's stock is >= 0.
StockNeverNegative == \A p \in Products : stock[p] >= 0

\* C2: with stock 1 and two concurrent checkouts of quantity 1 whose
\* payments succeed, exactly one checkout succeeds, the other fails for
\* insufficient stock, and the final stock is 0.
LastUnitSoldOnce ==
  (/\ \A r \in Proc : req[r].pc = "done"
   /\ \A r \in Proc : req[r].result # "PaymentFailed")
  => /\ \E r \in Proc :
          /\ req[r].result = "ok"
          /\ \A q \in Proc \ {r} :
               req[q].result \in {"InsufficientStock", "CartInvalid"}
     /\ stock["p1"] = 0
     /\ Len(orders) = 1

\* C3: createOrder is all-or-nothing.  A step of an open checkout
\* transaction either leaves the database untouched (every failure does) or
\* is the commit, which adds the order with one item per cart line, takes
\* exactly the ordered quantities from the stock and clears the cart; a line
\* is only added after its re-check passed; no order is without items.
CheckoutTxPcs == {"co_line", "co_dec", "co_clear", "co_commit"}

CheckoutCommitted(r) ==
  LET new == orders'[Len(orders) + 1] IN
  /\ req[r].pc = "co_commit"
  /\ Len(orders') = Len(orders) + 1
  /\ SubSeq(orders', 1, Len(orders)) = orders
  /\ new.userId = req[r].user
  /\ new.items # {}
  /\ {it.productId : it \in new.items}
       = {it.productId : it \in req[r].snap}
  /\ \A p \in Products :
       stock'[p] = stock[p] - QtyOf(new.items, p)
  /\ \A p \in req[r].cartDel : cart'[req[r].user][p] = 0
  /\ UNCHANGED <<price, isActive, cancellationCount, removed>>

CheckoutAllOrNothing ==
  /\ [](\A o \in OrderIds : orders[o].items # {})
  /\ [][\A r \in Proc :
          (req[r].pc \in CheckoutTxPcs /\ StepOf(r)) =>
            /\ \/ req'[r].result # "ok" /\ UNCHANGED db
               \/ req'[r].result = "ok" /\ CheckoutCommitted(r)
            /\ req'[r].pc = "done" /\ req'[r].result # "ok"
                 => req'[r].result \in
                      {"Unavailable", "InsufficientStock", "Deadlock"}
            /\ req'[r].pc = "co_dec"
                 => /\ isActive[req'[r].prod]
                    /\ QtyOf(req'[r].items, req'[r].prod)
                         <= stock[req'[r].prod]]_vars

\* C3 witness: a checkout transaction holds the pending decrement of an
\* earlier line and the re-check of every remaining line fails.
CheckoutFailsAfterFirstLine ==
  \E r \in Proc :
    /\ req[r].pc = "co_line"
    /\ req[r].held # {}
    /\ req[r].todo # {}
    /\ \A it \in req[r].todo :
         ~isActive[it.productId] \/ it.quantity > stock[it.productId]

\* C4: every order's totalAmount is the sum of quantity x price over its
\* stored items.
TotalIsSumOfItems ==
  \A o \in OrderIds : orders[o].totalAmount = SumTotal(orders[o].items)

\* C4 witness: an order of two lines with more than one unit on a line.
TwoLineOrderExists ==
  \E o \in OrderIds :
    /\ Cardinality(orders[o].items) = 2
    /\ \E it \in orders[o].items : it.quantity > 1

\* C5: no step changes the owner, the totalAmount or the items of an
\* existing order.
OrderSnapshotImmutable ==
  [][\A o \in OrderIds :
       /\ Len(orders') >= Len(orders)
       /\ orders'[o].userId = orders[o].userId
       /\ orders'[o].totalAmount = orders[o].totalAmount
       /\ orders'[o].items = orders[o].items]_vars

\* C5 witness: an order whose status has moved on holds an item whose price
\* differs from the current price of its product.
OrderKeepsOldPrice ==
  \E o \in OrderIds :
    /\ orders[o].status # "PENDING"
    /\ \E it \in orders[o].items : it.price # price[it.productId]

\* C6: the commit of cancelOrder adds exactly the item's quantity to the
\* stock of every product of the order, sets the order CANCELLED and adds
\* exactly 1 to the owner's cancellationCount; the commit of createOrder
\* took exactly those quantities, so the two in a row restore the stock.
CancelRestoresStock ==
  [][\A r \in Proc :
       /\ (req[r].pc = "ca_commit" /\ StepOf(r)) =>
            LET o == req[r].oid
                u == req[r].user
            IN /\ orders[o].userId = u
               /\ req'[r].result = "ok"
               /\ \A p \in Products :
                    stock'[p] = stock[p] + QtyOf(orders[o].items, p)
               /\ orders'[o].status = "CANCELLED"
               /\ cancellationCount'[u] = cancellationCount[u] + 1
               /\ \A v \in Users \ {u} :
                    cancellationCount'[v] = cancellationCount[v]
       /\ (req[r].pc = "co_commit" /\ StepOf(r)) =>
            \A p \in Products :
              stock'[p] =
                stock[p] - QtyOf(orders'[Len(orders')].items, p)]_vars

\* C6 witness: a customer's cancellation of an order of more than one unit
\* has committed.
OrderCancelledByOwner ==
  \E o \in OrderIds :
    /\ orders[o].status = "CANCELLED"
    /\ cancellationCount[orders[o].userId] = 1
    /\ \E it \in orders[o].items : it.quantity > 1
    /\ \E r \in Proc : req[r].pc = "done" /\ req[r].result = "ok"

\* C7: cancelOrder on the caller's own order whose status is SHIPPED,
\* DELIVERED or CANCELLED is refused with the 400 'can only cancel PENDING'
\* error and changes nothing.
CancelRefusedUnlessPending ==
  [][\A r \in Proc :
       (/\ req[r].pc = "ca_get" /\ StepOf(r)
        /\ req[r].oid \in OrderIds
        /\ orders[req[r].oid].userId = req[r].user
        /\ orders[req[r].oid].status \in {"SHIPPED", "DELIVERED", "CANCELLED"})
       => /\ req'[r].pc = "done"
          /\ req'[r].result = "NotPending"
          /\ UNCHANGED db]_vars

\* C7 witness: the cancellation of a DELIVERED order has been refused.
CancelOfDeliveredRefused ==
  /\ orders # <<>>
  /\ orders[Len(orders)].status = "DELIVERED"
  /\ \A o \in OrderIds : orders[o].status \in {"DELIVERED", "CANCELLED"}
  /\ req["r1"].pc = "done" /\ req["r1"].result = "NotPending"

\* C8: cancelOrder of the caller's own PENDING order is refused with the
\* forbidden error when the caller's cancellationCount is >= 5, and changes
\* nothing.
CancelRefusedAtLimit ==
  [][\A r \in Proc :
       (/\ req[r].pc = "ca_user" /\ StepOf(r)
        /\ cancellationCount[req[r].user] >= 5)
       => /\ orders[req[r].oid].userId = req[r].user
          /\ req'[r].pc = "done"
          /\ req'[r].result = "LimitReached"
          /\ UNCHANGED db]_vars

\* C8 witness: a customer with 5 cancellations has been refused the
\* cancellation of a PENDING order of their own.
RefusedAtFiveCancellations ==
  /\ cancellationCount["u1"] = 5
  /\ req["r1"].pc = "done" /\ req["r1"].result = "LimitReached"
  /\ \E o \in OrderIds :
       orders[o].userId = "u1" /\ orders[o].status = "PENDING"

\* C9: updateOrderStatus accepts exactly PENDING->SHIPPED,
\* PENDING->CANCELLED, SHIPPED->DELIVERED and SHIPPED->CANCELLED, and then
\* stores the new status; every other pair is refused with the 400
\* 'invalid status transition' error and the order is unchanged.
AllowedTransitions ==
  {<<"PENDING", "SHIPPED">>, <<"PENDING", "CANCELLED">>,
   <<"SHIPPED", "DELIVERED">>, <<"SHIPPED", "CANCELLED">>}

StatusUpdateFollowsTable ==
  [][\A r \in Proc :
       /\ (req[r].pc = "us_get" /\ StepOf(r) /\ req[r].oid \in OrderIds) =>
            IF <<orders[req[r].oid].status, req[r].status>>
                 \in AllowedTransitions
            THEN req'[r].pc = "us_write" /\ UNCHANGED db
            ELSE /\ req'[r].pc = "done"
                 /\ req'[r].result = "InvalidTransition"
                 /\ UNCHANGED db
       /\ (req[r].pc = "us_write" /\ StepOf(r)) =>
            /\ req'[r].result = "ok"
            /\ orders'[req[r].oid].status = req[r].status
            /\ \A o \in OrderIds \ {req[r].oid} : orders'[o] = orders[o]]_vars

\* C9 witness: a status update of a DELIVERED order has been refused.
UpdateOfDeliveredRefused ==
  /\ orders # <<>>
  /\ \A o \in OrderIds : orders[o].status = "DELIVERED"
  /\ req["r1"].pc = "done" /\ req["r1"].result = "InvalidTransition"

\* C10: once the stored status of an order is DELIVERED or CANCELLED it
\* never changes again.
TerminalStatusIsFinal ==
  [][\A o \in OrderIds :
       orders[o].status \in {"DELIVERED", "CANCELLED"}
         => orders'[o].status = orders[o].status]_vars

\* C11: createOrder of a user whose cart has no items is refused by the
\* validation step itself, before the payment and before the transaction:
\* the request ends with the cart-validation 400 and nothing is written.
EmptyCartRejected ==
  [][\A r \in Proc :
       (/\ req[r].pc = "co_validate"
        /\ StepOf(r)
        /\ \A p \in Products : cart[req[r].user][p] = 0)
       => /\ req'[r].pc = "done"
          /\ req'[r].result = "CartInvalid"
          /\ UNCHANGED db]_vars

\* C11 witness: the customer, who never added a line, was refused.
EmptyCartCheckoutRefused ==
  /\ req["r1"].pc = "done"
  /\ req["r1"].result = "CartInvalid"
  /\ orders = <<>>
  /\ \A p \in Products : cart["u1"][p] = 0

\* the stored cart lines of user u that violate the checkout rules
StoredCartViolations(u) ==
  {p \in Products :
     cart[u][p] > 0 /\ (~isActive[p] \/ cart[u][p] > stock[p])}

\* C12: createOrder is refused with the cart-validation error whenever a
\* line stored in the cart refers to an inactive product or to a product
\* whose stock is below the line's quantity, and nothing is written.
CartViolationsRejected ==
  [][\A r \in Proc :
       (/\ req[r].pc = "co_validate"
        /\ StepOf(r)
        /\ StoredCartViolations(req[r].user) # {})
       => /\ req'[r].pc = "done"
          /\ req'[r].result = "CartInvalid"
          /\ UNCHANGED db]_vars

\* C13: a createOrder request ends with the payment failure only at the
\* payment step, and that step writes nothing: no order, no order item, no
\* stock decrement, and the cart keeps its lines.
PaymentFailureHasNoEffect ==
  [][\A r \in Proc :
       /\ (req[r].pc = "co_pay" /\ StepOf(r) /\ req'[r].pc = "done")
            => req'[r].result = "PaymentFailed" /\ UNCHANGED db
       /\ (StepOf(r) /\ req'[r].result = "PaymentFailed")
            => req[r].pc = "co_pay" /\ UNCHANGED db]_vars

\* C13 witness: a payment failed while the customer's cart is still full
\* and no order exists.
PaymentFailedCartKept ==
  /\ \E r \in Proc : req[r].pc = "done" /\ req[r].result = "PaymentFailed"
  /\ orders = <<>>
  /\ \A p \in Products : cart["u1"][p] > 0

CancelTxPcs == {"ca_inc", "ca_status", "ca_count", "ca_commit"}

CancelIsAtomic ==
  [][/\ \A r \in Proc :
          (req[r].pc \in CancelTxPcs /\ StepOf(r)) =>
            \/ UNCHANGED db
            \/ /\ req[r].pc = "ca_commit"
               /\ \A p \in Products :
                    stock'[p] = stock[p] + QtyOf(orders[req[r].oid].items, p)
               /\ orders'[req[r].oid].status = "CANCELLED"
               /\ cancellationCount'[req[r].user]
                    = cancellationCount[req[r].user] + 1
     /\ cancellationCount' # cancellationCount =>
          \E r \in Proc :
            /\ req[r].pc = "ca_commit" /\ StepOf(r)
            /\ stock' # stock
            /\ orders'[req[r].oid].status = "CANCELLED"]_vars

\* C15 witness: a cancellation was aborted by the deadlock detector while
\* another one holds restored stock; the order is still PENDING, no counter
\* has moved and the committed stock is still short of the ordered units.
CancelAbortedLeavesNoTrace ==
  \E r \in Proc, q \in Proc :
    /\ req[r].pc = "done" /\ req[r].result = "Deadlock"
    /\ req[q].pc \in CancelTxPcs /\ req[q].held # {}
    /\ Len(orders) = 1
    /\ orders[1].status = "PENDING"
    /\ \A u \in Users : cancellationCount[u] = 0
    /\ \A it \in orders[1].items : stock[it.productId] = 0

\* C16: cancelOrder(orderId, userId) for an existing order of another user
\* is refused at the lookup (404) and writes nothing: the order's status,
\* every stock and every cancellationCount stay as they are.
ForeignCancelRefused ==
  [][\A r \in Proc :
       (/\ req[r].pc = "ca_get"
        /\ StepOf(r)
        /\ req[r].oid \in OrderIds
        /\ orders[req[r].oid].userId # req[r].user)
       => /\ req'[r].pc = "done"
          /\ req'[r].result = "NotFound"
          /\ UNCHANGED db]_vars

\* C16 witness: the other customer's cancellation of a PENDING order was
\* refused and the order is still PENDING.
ForeignCancelOfPendingRefused ==
  /\ req["r2"].pc = "done"
  /\ req["r2"].result = "NotFound"
  /\ Len(orders) = 1
  /\ orders[1].userId = "u1"
  /\ orders[1].status = "PENDING"
  /\ \A u \in Users : cancellationCount[u] = 0

\* C17: in every reachable state every user's cancellationCount is at most
\* the configured maximum.
CancellationCountCapped ==
  \A u \in Users : cancellationCount[u] <= maxCancellationCount

\* C18: no step decreases a user's cancellationCount, and a cancelOrder
\* that reaches the limit check of a user who is at the maximum is refused
\* with nothing written; so a user once refused stays refused.
BlockIsPermanent ==
  [][/\ \A u \in Users : cancellationCount'[u] >= cancellationCount[u]
     /\ \A r \in Proc :
          (/\ req[r].pc = "ca_user" /\ StepOf(r)
           /\ cancellationCount[req[r].user] >= maxCancellationCount)
          => /\ req'[r].result = "LimitReached"
             /\ UNCHANGED db]_vars

\* C18 witness: the user at the maximum was refused on both connections,
\* one cancellation after the other, and the second order is still PENDING.
RefusedAgain ==
  /\ \A r \in Proc : req[r].pc = "done" /\ req[r].result = "LimitReached"
  /\ cancellationCount["u1"] = maxCancellationCount
  /\ orders[2].status = "PENDING"

\* C19: no step of updateOrderStatus, accepted or refused, and whatever the
\* new status, changes a product's stock or a user's cancellationCount.
StatusUpdateKeepsStockAndCount ==
  [][\A r \in Proc :
       (req[r].pc \in {"us_get", "us_write"} /\ StepOf(r))
       => UNCHANGED <<stock, cancellationCount, price, isActive, cart, removed>>]_vars

\* C19 witness: an order was set to CANCELLED by a status update: its owner's
\* counter is 0 and the units it took are still out of the stock.
CancelledByStatusUpdate ==
  \E o \in OrderIds :
    /\ orders[o].status = "CANCELLED"
    /\ cancellationCount[orders[o].userId] = 0
    /\ \A it \in orders[o].items : stock[it.productId] = 0

\* C20: the update-status, statistics, recent-orders and revenue routes
\* answer 403 to a CUSTOMER token before the handler runs and let an ADMIN
\* token through; no step of the customer's connection enters the
\* updateOrderStatus handler, a 403 writes nothing, and the only status
\* change a customer's request makes is the commit of a cancellation.
AdminPaths ==
  {"PUT /:id/status", "GET /admin/statistics", "GET /admin/recent",
   "GET /admin/revenue"}

CustomerCannotUpdateStatus ==
  /\ [](\A path \in AdminPaths :
          /\ Dispatch(orderRoutes, "CUSTOMER", path) = "Forbidden"
          /\ Dispatch(orderRoutes, "ADMIN", path) = "handler")
  /\ [][StepOf("r1") =>
          /\ req'["r1"].pc \notin {"us_get", "us_write"}
          /\ req'["r1"].result = "Forbidden" =>
               req["r1"].pc \in {"idle", "done"} /\ UNCHANGED db
          /\ \A o \in OrderIds :
               orders'[o].status # orders[o].status =>
                 /\ req["r1"].pc = "ca_commit"
                 /\ orders'[o].status = "CANCELLED"]_vars

\* C20 witness: the customer was answered 403 while an order is PENDING.
CustomerForbidden ==
  /\ req["r1"].pc = "done"
  /\ req["r1"].result = "Forbidden"
  /\ \E o \in OrderIds : orders[o].status = "PENDING"

\* C21: when the transaction of a successful createOrder commits, the cart
\* of its user contains no cart items.
CartEmptyAtCommit ==
  [][\A r \in Proc :
       (req[r].pc = "co_commit" /\ StepOf(r))
       => \A p \in Products : cart'[req[r].user][p] = 0]_vars

\* C22: no product row is removed while an order item references it, and a
\* hardDeleteProduct that ends while an order item references its product
\* ends with a 400 and leaves the product row, also when the order item was
\* committed by a createOrder that ran alongside it.
ReferencedProductKept ==
  /\ [](\A o \in OrderIds : \A it \in orders[o].items :
          it.productId \notin removed)
  /\ [][(/\ req["r2"].pc \in {"hd_count", "hd_delete"}
         /\ req'["r2"].pc = "done"
         /\ OrderItemCount(req["r2"].prod) > 0)
        => /\ req'["r2"].result = "BadRequest"
           /\ removed' = removed]_vars

\* C22 witness: the hard delete passed its order-history check and removed
\* the cart lines, the checkout then committed an item of the product, and
\* the delete was refused; u2, who never checked out, lost the cart line.
HardDeleteRefusedAfterCheckout ==
  /\ req["r2"].pc = "done"
  /\ req["r2"].result = "BadRequest"
  /\ Len(orders) = 1
  /\ orders[1].userId = "u1"
  /\ \E it \in orders[1].items : it.productId = "p1"
  /\ cart["u2"]["p1"] = 0
  /\ removed = {}

\* C23: an order item stores the price its product has when the item is
\* created, also when the admin changed the price after the cart was read
\* and validated.
ItemPriceIsCurrent ==
  [][\A r \in Proc :
       (req[r].pc = "co_line" /\ req'[r].pc = "co_dec")
       => \A it \in req'[r].items \ req[r].items :
            it.price = price[it.productId]]_vars

\* C24: under two or more cancelOrder requests for the same order the stock
\* of its items is restored at most once and the cancellation count of its
\* user is incremented at most once: a cancelOrder that commits on an order
\* an earlier cancelOrder has already cancelled changes neither.
CancelAppliedOnce ==
  [][\A r \in Proc :
       (/\ req[r].pc = "ca_commit"
        /\ StepOf(r)
        /\ orders[req[r].oid].status = "CANCELLED")
       => /\ stock' = stock
          /\ cancellationCount' = cancellationCount]_vars

\* C25: cancelOrder takes effect only on an order that is PENDING when it
\* writes: once the admin has moved the order to SHIPPED, a cancelOrder
\* that commits neither sets it to CANCELLED nor restores stock.
CancelKeepsShipped ==
  [][\A r \in Proc :
       (/\ req[r].pc = "ca_commit"
        /\ StepOf(r)
        /\ orders[req[r].oid].status = "SHIPPED")
       => /\ orders'[req[r].oid].status = "SHIPPED"
          /\ stock' = stock]_vars

RECURSIVE OpenQty(_, _)
\* the units of product p held by the orders 1..n that are not CANCELLED
OpenQty(n, p) ==
  IF n = 0 THEN 0
  ELSE OpenQty(n - 1, p)
       + (IF orders[n].status = "CANCELLED" THEN 0
          ELSE QtyOf(orders[n].items, p))

\* C26: without admin stock edits, every product's stock plus the
\* quantities of its items in the orders that are not CANCELLED stays at
\* the product's initial stock: no step loses or creates units.
StockConserved ==
  [][\A p \in Products :
       stock'[p] + OpenQty(Len(orders), p)'
         = stock[p] + OpenQty(Len(orders), p)]_vars

\* C27: every cart line that a successful createOrder deletes has an order
\* item of the same product and quantity in the created order.
CheckoutDeletesOnlyOrdered ==
  [][\A r \in Proc :
       (req[r].pc = "co_commit" /\ StepOf(r))
       => \A p \in Products :
            (cart[req[r].user][p] > 0 /\ cart'[req[r].user][p] = 0)
            => \E it \in orders'[Len(orders')].items :
                 it.productId = p /\ it.quantity = cart[req[r].user][p]]_vars

\* C28: with the stock of the product constant, after every successful
\* addToCart the quantity of the cart line is at most the stock, also for
\* two concurrent addToCart requests of one user for one product.
AddToCartWithinStock ==
  [][\A r \in Proc :
       (req[r].pc = "ac_upsert" /\ StepOf(r))
       => cart'[req[r].user][req[r].prod] <= stock[req[r].prod]]_vars

\* C29: cleanupCart removes the lines of inactive products, sets a line of
\* an active product whose quantity is over the stock to the stock and
\* keeps it, and leaves the other lines as they are.
CleanupClampsOverStock ==
  [][(req["r1"].pc = "cl_update" /\ StepOf("r1"))
     => \A it \in req["r1"].snap :
          cart'["u1"][it.productId] =
            IF ~it.isActive THEN 0
            ELSE IF it.quantity > it.stock THEN it.stock
            ELSE it.quantity]_vars

\* the period a day lies in
PeriodOf(period, d) ==
  CASE period = "day" -> d
    [] period = "week" -> d \div DaysPerWeek
    [] period = "month" -> d \div DaysPerMonth
    [] period = "year" -> d \div DaysPerYear

\* the orders of ids created in the period of day d
InPeriod(ids, period, d) ==
  {i \in ids : PeriodOf(period, orders[i].createdAt) = PeriodOf(period, d)}

\* C30: getRevenueByd(period, limit) has one entry for every period that
\* holds a non-CANCELLED order of the window, with the sum of totalAmount
\* and the number of the orders created in that period, and the entries are
\* in ascending order of their date key.
RevenueGroupedByPeriod ==
  [][(req["r1"].pc = "rv_find" /\ StepOf("r1"))
     => LET res == req'["r1"].updates
            per == req["r1"].field
            ids == RevenueOrders(req["r1"].val)
        IN /\ Len(res) =
                Cardinality({PeriodOf(per, orders[i].createdAt) : i \in ids})
           /\ \A i \in ids : \E n \in 1..Len(res) :
                /\ res[n].orderCount = Cardinality(InPeriod(ids, per, orders[i].createdAt))
                /\ res[n].revenue = SumAmount(InPeriod(ids, per, orders[i].createdAt))
           /\ \A m, n \in 1..Len(res) :
                m < n => DateBefore(res[m].date, res[n].date)]_vars
====
